---- MODULE Spec2Model ----
(***************************************************************************)
(* Model of rng_quantique.py: the rejection-sampling generator             *)
(* generator_quantum_number, the benchmark loop and the command-line       *)
(* program.  The circuit simulator is the bit source: one shot of a        *)
(* circuit of num_qubits Hadamard-prepared qubits delivers a string of     *)
(* num_qubits bits, or the simulator fails.                                *)
(***************************************************************************)
EXTENDS Integers, Sequences, FiniteSets, TLC

\* ---------------------------------------------------------------- bounds
MaxMin == 2
MaxMax == 3
MaxIter == 2
\* longest chain of nested generator_quantum_number frames explored by Spec
MaxDepth == 2

\* CPython's default sys.getrecursionlimit(): the deepest chain of frames the
\* recursive call of line 53 can build (frames of the caller and of the
\* library calls only make the limit be reached earlier)
RecursionLimit == 1000

\* the range of the usage example, "--min 1 --max 10"
ExampleRange == <<1, 10>>

MinVals == 0..MaxMin
MaxVals == 0..MaxMax
Ranges == (MinVals \X MaxVals) \cup {ExampleRange}
DeepRanges == MinVals \X MaxVals

VARIABLES
    entry,        \* "cli": run as a script; "call": the sampler called by an importing caller
    args,         \* parsed command line (or the arguments of the direct call)
    pc,           \* position of the main program / of the direct caller
    out,          \* messages printed by the program
    traceback,    \* an exception left the program unhandled
    exitStatus,   \* process exit status, -1 while running
    rendered,     \* draw_and_save was called
    i,            \* benchmark loop index
    calls,        \* sampler invocations made by benchmark
    dataset,      \* benchmark's list
    histSaved,    \* plt.hist / plt.savefig done
    histData,     \* the dataset handed to plt.hist
    sp,           \* sampler call: "idle", "running", "returned", "raised"
    min_val,      \* arguments of the innermost sampler frame
    max_val,
    depth,        \* nested generator_quantum_number frames
    draws,        \* simulator runs made by the current sampler call
    measurement,  \* bit string of the latest shot
    discarded,    \* decimal values rejected by the current sampler call
    widths,       \* qubit counts requested by the current sampler call
    result,       \* value returned by the sampler call
    error,        \* exception raised by the sampler call
    failedAt,     \* number of the draw on which the simulator failed, 0 if none
    returns       \* values returned by the successive sampler calls

vars == <<entry, args, pc, out, traceback, exitStatus, rendered, i, calls,
          dataset, histSaved, histData, sp, min_val, max_val, depth, draws,
          measurement, discarded, widths, result, error, failedAt, returns>>

mainVars == <<pc, out, traceback, exitStatus, rendered, i, calls, dataset,
              histSaved, histData>>
samplerVars == <<sp, min_val, max_val, depth, draws, measurement, discarded,
                 widths, result, error, failedAt, returns>>

\* ------------------------------------------------------- pure functions
Abs(n) == IF n < 0 THEN -n ELSE n

RECURSIVE Pow2(_)
Pow2(k) == IF k <= 0 THEN 1 ELSE 2 * Pow2(k - 1)

\* int.bit_length(): bits needed for |n|, 0 for 0
RECURSIVE BitLength(_)
BitLength(n) == IF n = 0 THEN 0 ELSE 1 + BitLength(Abs(n) \div 2)

RangeSize(lo, hi) == hi - lo + 1

NumQubitsShort(lo, hi) == BitLength(RangeSize(lo, hi)) - 1
NumQubits(lo, hi) == BitLength(RangeSize(lo, hi))

\* the memory strings a one-shot run of a k-qubit circuit can deliver
BitStrings(k) == [1..k -> {0, 1}]

\* int(measurement, 2): most significant bit first
RECURSIVE IntBase2(_)
IntBase2(bits) ==
    IF Len(bits) = 0 THEN 0
    ELSE 2 * IntBase2(SubSeq(bits, 1, Len(bits) - 1)) + bits[Len(bits)]

RejectedOffByOne(decimal_number, range_size) == decimal_number > range_size
Rejected(decimal_number, range_size) == decimal_number >= range_size

ReturnValueNoOffset(lo, decimal_number) == decimal_number
ReturnValue(lo, decimal_number) == lo + decimal_number

\* what a sampler frame does when simulator.run(...).result() raises:
\* there is no try/except in generator_quantum_number
AfterSourceFailureRetry == "running"
AfterSourceFailure == "raised"

InvalidRangeStrict(a) == a.min > a.max
InvalidRange(a) == a.min >= a.max

LoopContinuesOffByOne(idx, iterations) == idx <= iterations
LoopContinues(idx, iterations) == idx < iterations

\* ----------------------------------------------------------------- Init
Init ==
    /\ entry \in {"cli", "call"}
    /\ \E r \in Ranges, im \in BOOLEAN, b \in BOOLEAN, it \in 0..MaxIter :
          args = [min |-> r[1], max |-> r[2],
                  image |-> (entry = "cli" /\ im),
                  benchmark |-> (entry = "cli" /\ b),
                  iterations |-> IF entry = "cli" /\ b THEN it ELSE 0]
    /\ pc = IF entry = "cli" THEN "main" ELSE "caller"
    /\ out = {}
    /\ traceback = FALSE
    /\ exitStatus = -1
    /\ rendered = FALSE
    /\ i = 0
    /\ calls = 0
    /\ dataset = <<>>
    /\ histSaved = FALSE
    /\ histData = <<>>
    /\ sp = "idle"
    /\ min_val = 0
    /\ max_val = 0
    /\ depth = 0
    /\ draws = 0
    /\ measurement = <<>>
    /\ discarded = {}
    /\ widths = {}
    /\ result = 0
    /\ error = "none"
    /\ failedAt = 0
    /\ returns = <<>>

InitDeep ==
    /\ Init
    /\ entry = "call"
    /\ <<args.min, args.max>> \in DeepRanges

\* a call generator_quantum_number(lo, hi) from outside the function
Invoke(lo, hi) ==
    /\ sp' = "running"
    /\ min_val' = lo
    /\ max_val' = hi
    /\ depth' = 1
    /\ draws' = 0
    /\ measurement' = <<>>
    /\ discarded' = {}
    /\ widths' = {}
    /\ result' = 0
    /\ error' = "none"
    /\ failedAt' = 0
    /\ UNCHANGED returns

\* ------------------------------------------------ generator_quantum_number
\* one frame, lines 30-55, the shot delivering an in-range value
DrawAccept ==
    /\ sp = "running"
    /\ LET k == NumQubits(min_val, max_val) IN
       \E bits \in BitStrings(k) :
          /\ Len(bits) > 0
          /\ ~Rejected(IntBase2(bits), RangeSize(min_val, max_val))
          /\ measurement' = bits
          /\ widths' = widths \cup {k}
          /\ result' = ReturnValue(min_val, IntBase2(bits))
          /\ returns' = Append(returns, ReturnValue(min_val, IntBase2(bits)))
    /\ draws' = draws + 1
    /\ sp' = "returned"
    /\ depth' = 0
    /\ UNCHANGED <<min_val, max_val, discarded, error, failedAt>>
    /\ UNCHANGED <<entry, args>>
    /\ UNCHANGED mainVars

\* one frame, the shot delivering an out-of-range value: line 53 calls the
\* function again with the same arguments
DrawReject(cap) ==
    /\ sp = "running"
    /\ depth < cap
    /\ LET k == NumQubits(min_val, max_val) IN
       \E bits \in BitStrings(k) :
          /\ Len(bits) > 0
          /\ Rejected(IntBase2(bits), RangeSize(min_val, max_val))
          /\ measurement' = bits
          /\ widths' = widths \cup {k}
          /\ discarded' = discarded \cup {IntBase2(bits)}
    /\ draws' = draws + 1
    /\ depth' = depth + 1
    /\ UNCHANGED <<sp, min_val, max_val, result, error, failedAt, returns>>
    /\ UNCHANGED <<entry, args>>
    /\ UNCHANGED mainVars

\* the recursive call of line 53 made by the frame at the recursion limit
StackOverflow ==
    /\ sp = "running"
    /\ depth = RecursionLimit
    /\ LET k == NumQubits(min_val, max_val) IN
       \E bits \in BitStrings(k) :
          /\ Len(bits) > 0
          /\ Rejected(IntBase2(bits), RangeSize(min_val, max_val))
          /\ measurement' = bits
          /\ widths' = widths \cup {k}
          /\ discarded' = discarded \cup {IntBase2(bits)}
    /\ draws' = draws + 1
    /\ sp' = "raised"
    /\ error' = "RecursionError"
    /\ depth' = 0
    /\ UNCHANGED <<min_val, max_val, result, failedAt, returns>>
    /\ UNCHANGED <<entry, args>>
    /\ UNCHANGED mainVars

\* simulator.run(...).result() raises (line 44)
DrawFail ==
    /\ sp = "running"
    /\ draws' = draws + 1
    /\ failedAt' = draws + 1
    /\ widths' = widths \cup {NumQubits(min_val, max_val)}
    /\ sp' = AfterSourceFailure
    /\ error' = "SimulatorError"
    /\ depth' = IF AfterSourceFailure = "raised" THEN 0 ELSE depth
    /\ UNCHANGED <<min_val, max_val, measurement, discarded, result, returns>>
    /\ UNCHANGED <<entry, args>>
    /\ UNCHANGED mainVars

\* a circuit of zero qubits delivers the empty string and int('', 2) raises
DrawEmpty ==
    /\ sp = "running"
    /\ NumQubits(min_val, max_val) = 0
    /\ draws' = draws + 1
    /\ widths' = widths \cup {0}
    /\ measurement' = <<>>
    /\ sp' = "raised"
    /\ error' = "ValueError"
    /\ depth' = 0
    /\ UNCHANGED <<min_val, max_val, discarded, result, failedAt, returns>>
    /\ UNCHANGED <<entry, args>>
    /\ UNCHANGED mainVars

\* ------------------------------------------------------------ direct call
Call ==
    /\ entry = "call"
    /\ pc = "caller"
    /\ Invoke(args.min, args.max)
    /\ pc' = "called"
    /\ UNCHANGED <<entry, args, out, traceback, exitStatus, rendered, i, calls,
                   dataset, histSaved, histData>>

\* ------------------------------------------------------------- __main__
\* lines 93-97
CheckRange ==
    /\ entry = "cli"
    /\ pc = "main"
    /\ IF InvalidRange(args)
       THEN /\ out' = out \cup {"Starting", "ErrorRange"}
            /\ exitStatus' = 1
            /\ pc' = "exit"
       ELSE /\ out' = out \cup {"Starting"}
            /\ pc' = "image"
            /\ UNCHANGED exitStatus
    /\ UNCHANGED <<entry, args, traceback, rendered, i, calls, dataset,
                   histSaved, histData>>
    /\ UNCHANGED samplerVars

\* lines 99-100
Image ==
    /\ pc = "image"
    /\ rendered' = args.image
    /\ out' = IF args.image THEN out \cup {"ImageSaved"} ELSE out
    /\ pc' = "dispatch"
    /\ UNCHANGED <<entry, args, traceback, exitStatus, i, calls, dataset,
                   histSaved, histData>>
    /\ UNCHANGED samplerVars

\* lines 102-103 and 59-60
StartBenchmark ==
    /\ pc = "dispatch"
    /\ args.benchmark
    /\ out' = out \cup {"Benchmarking"}
    /\ dataset' = <<>>
    /\ i' = 0
    /\ pc' = "bench_loop"
    /\ UNCHANGED <<entry, args, traceback, exitStatus, rendered, calls,
                   histSaved, histData>>
    /\ UNCHANGED samplerVars

\* lines 61-62: next iteration of the loop, or the loop ends
BenchIter ==
    /\ pc = "bench_loop"
    /\ IF LoopContinues(i, args.iterations)
       THEN /\ Invoke(args.min, args.max)
            /\ calls' = calls + 1
            /\ pc' = "bench_call"
       ELSE /\ pc' = "plot"
            /\ UNCHANGED calls
            /\ UNCHANGED samplerVars
    /\ UNCHANGED <<entry, args, out, traceback, exitStatus, rendered, i,
                   dataset, histSaved, histData>>

\* lines 62-63
BenchAppend ==
    /\ pc = "bench_call"
    /\ sp = "returned"
    /\ dataset' = Append(dataset, result)
    /\ i' = i + 1
    /\ pc' = "bench_loop"
    /\ UNCHANGED <<entry, args, out, traceback, exitStatus, rendered, calls,
                   histSaved, histData>>
    /\ UNCHANGED samplerVars

\* an exception of line 62 leaves benchmark and the program: nothing catches it
BenchRaise ==
    /\ pc = "bench_call"
    /\ sp = "raised"
    /\ traceback' = TRUE
    /\ exitStatus' = 1
    /\ pc' = "exit"
    /\ UNCHANGED <<entry, args, out, rendered, i, calls, dataset, histSaved,
                   histData>>
    /\ UNCHANGED samplerVars

\* lines 65-77
Plot ==
    /\ pc = "plot"
    /\ histData' = dataset
    /\ histSaved' = TRUE
    /\ out' = out \cup {"HistogramSaved"}
    /\ exitStatus' = 0
    /\ pc' = "exit"
    /\ UNCHANGED <<entry, args, traceback, rendered, i, calls, dataset>>
    /\ UNCHANGED samplerVars

\* lines 104-107
StartSingle ==
    /\ pc = "dispatch"
    /\ ~args.benchmark
    /\ out' = out \cup {"Generating"}
    /\ Invoke(args.min, args.max)
    /\ pc' = "single_call"
    /\ UNCHANGED <<entry, args, traceback, exitStatus, rendered, i, calls,
                   dataset, histSaved, histData>>

\* line 108
SinglePrint ==
    /\ pc = "single_call"
    /\ sp = "returned"
    /\ out' = out \cup {"Generated"}
    /\ exitStatus' = 0
    /\ pc' = "exit"
    /\ UNCHANGED <<entry, args, traceback, rendered, i, calls, dataset,
                   histSaved, histData>>
    /\ UNCHANGED samplerVars

\* lines 109-110
SingleExcept ==
    /\ pc = "single_call"
    /\ sp = "raised"
    /\ out' = out \cup {"ErrorOccurred"}
    /\ exitStatus' = 0
    /\ pc' = "exit"
    /\ UNCHANGED <<entry, args, traceback, rendered, i, calls, dataset,
                   histSaved, histData>>
    /\ UNCHANGED samplerVars

\* ------------------------------------------------------- specifications
Next ==
    \/ Call
    \/ CheckRange
    \/ Image
    \/ StartBenchmark
    \/ BenchIter
    \/ BenchAppend
    \/ BenchRaise
    \/ Plot
    \/ StartSingle
    \/ SinglePrint
    \/ SingleExcept
    \/ DrawAccept
    \/ DrawReject(MaxDepth)
    \/ DrawFail
    \/ DrawEmpty

Spec == Init /\ [][Next]_vars

\* the sampler called directly, the bit source free to reject without end
NextDeep ==
    \/ Call
    \/ DrawAccept
    \/ DrawReject(RecursionLimit)
    \/ StackOverflow
    \/ DrawFail
    \/ DrawEmpty

SpecDeep == InitDeep /\ [][NextDeep]_vars

\* ----------------------------------------------------------- properties
ValidCall == sp # "idle" /\ min_val < max_val
range_size == RangeSize(min_val, max_val)
decimal_number == IntBase2(measurement)

\* C1: a value returned by generator_quantum_number for min_val < max_val
\* lies in [min_val, max_val], whatever bit strings the source delivered.
C1_ResultInRange ==
    (ValidCall /\ sp = "returned") => (min_val <= result /\ result <= max_val)

C1_Witness ==
    /\ ValidCall
    /\ sp = "returned"
    /\ draws > 1
    /\ result = max_val

\* C2: the width requested for a valid range is the smallest k with
\* 2^k >= range_size, that is 2^(k-1) < range_size <= 2^k.
C2_WidthIsCeilLog2 ==
    ValidCall =>
        \A k \in widths : Pow2(k - 1) < range_size /\ range_size <= Pow2(k)

\* C3: the value returned is min_val + the first draw below range_size; the
\* draws before it were all >= range_size, none of them is returned or enters
\* the result, and every draw of the call asked for the same width.  For the
\* range 1..10 and the draws 1011, 0011 the result is 4.
C3_FirstInRangeDraw ==
    (ValidCall /\ sp = "returned") =>
        /\ result = min_val + decimal_number
        /\ decimal_number < range_size
        /\ \A d \in discarded : d >= range_size /\ result # min_val + d
        /\ Cardinality(widths) = 1
        /\ Len(measurement) \in widths
        /\ (/\ <<min_val, max_val>> = ExampleRange
            /\ discarded = {11}
            /\ measurement = <<0, 0, 1, 1>>) => result = 4

C3_Witness ==
    /\ sp = "returned"
    /\ <<min_val, max_val>> = ExampleRange
    /\ draws = 2
    /\ discarded = {11}
    /\ measurement = <<0, 0, 1, 1>>
    /\ result = 4

\* C4: for a valid range, every integer of [min_val, max_val] is the result
\* of exactly one of the bit strings of the requested width: the accepted bit
\* strings are as many as the integers of the range and their results cover it.
C4_OneDrawPerValue ==
    ValidCall =>
        \A k \in widths :
            LET accepted == {b \in BitStrings(k) :
                                ~Rejected(IntBase2(b), range_size)}
            IN  /\ Cardinality(accepted) = Cardinality(min_val..max_val)
                /\ {ReturnValue(min_val, IntBase2(b)) : b \in accepted}
                       = min_val..max_val

C4_Witness ==
    /\ ValidCall
    /\ sp = "returned"
    /\ range_size = 3
    /\ result = min_val + 1
    /\ measurement = <<0, 1>>

\* C5: run from the command line with --min >= --max, the program exits with
\* a non-zero status and has made no draw, no rendering and no benchmark run,
\* whatever --image and --benchmark are.
C5_InvalidRangeExitsFirst ==
    (entry = "cli" /\ args.min >= args.max) =>
        /\ pc \in {"main", "exit"}
        /\ pc = "exit" => exitStatus = 1
        /\ sp = "idle"
        /\ draws = 0
        /\ ~rendered
        /\ calls = 0
        /\ ~histSaved
        /\ out \subseteq {"Starting", "ErrorRange"}

C5_Witness ==
    /\ entry = "cli"
    /\ args.min >= args.max
    /\ args.image
    /\ args.benchmark
    /\ pc = "exit"
    /\ exitStatus = 1

\* C6: generator_quantum_number called with min_val >= max_val makes no draw
\* and returns no value.
C6_SamplerRejectsInvalidRange ==
    (entry = "call" /\ args.min >= args.max) =>
        (draws = 0 /\ sp # "returned")

\* C7: for a valid range and a bit source that does not fail, the call only
\* ever retries or returns: no number of rejected draws makes it fail.
C7_NoCapOnRetries ==
    (ValidCall /\ failedAt = 0) => sp \in {"running", "returned"}

\* C8: once the simulator has failed on a draw, the call makes no further
\* draw, returns no value, and the simulator's error is what the caller gets.
C8_SourceFailurePropagates ==
    failedAt > 0 =>
        /\ sp = "raised"
        /\ error = "SimulatorError"
        /\ draws = failedAt

C8_Witness ==
    /\ failedAt > 1
    /\ sp = "raised"
    /\ error = "SimulatorError"
    /\ discarded # {}

\* C9: in the command-line program a simulator failure during sampling ends
\* the request with the program's own error message on both the single-number
\* path and the --benchmark path, never with an unhandled exception.
C9_FailureReportedOnEveryPath ==
    (entry = "cli" /\ failedAt > 0 /\ pc = "exit") =>
        /\ "ErrorOccurred" \in out
        /\ ~traceback
        /\ "Generated" \notin out
        /\ ~histSaved

\* C10: benchmark calls the sampler once per iteration; the dataset holds the
\* values returned by the calls, in order, one per completed call and all in
\* [min_val, max_val], whatever draws were rejected inside the calls; the
\* histogram receives exactly `iterations` entries.
C10_BenchmarkDataset ==
    (entry = "cli" /\ args.benchmark) =>
        /\ Len(dataset) = i
        /\ i <= args.iterations
        /\ calls <= args.iterations
        /\ dataset = SubSeq(returns, 1, i)
        /\ Len(returns) <= i + 1
        /\ calls = Len(returns) + (IF sp \in {"running", "raised"} THEN 1 ELSE 0)
        /\ \A j \in 1..Len(dataset) :
              args.min <= dataset[j] /\ dataset[j] <= args.max
        /\ histSaved =>
              /\ histData = returns
              /\ Len(histData) = args.iterations
              /\ calls = args.iterations

C10_Witness ==
    /\ histSaved
    /\ Len(histData) = 2
    /\ histData[1] # histData[2]
    /\ calls = 2
    /\ draws > 1

====
